---- MODULE Spec2Model ----
(***************************************************************************)
(* Model of node-sql-query-builder: buildSqlQuery(params) validates a      *)
(* query specification, renders its clauses, assembles one SELECT          *)
(* statement, runs the injection guard and settles a promise.              *)
(*                                                                         *)
(* Text is modelled as TLA+ strings, read character by character with      *)
(* SubSeq, so that rendering, whitespace normalisation and the denylist    *)
(* scan are computed as the code computes them.                            *)
(*                                                                         *)
(* Encoding of the TypeScript unions (src/src/types.ts):                   *)
(*   Table  = string | {name, alias?}      -> [form, name, alias]          *)
(*   Column = string | {tableAlias, name, alias?}                          *)
(*                                         -> [form, tableAlias, name,     *)
(*                                             alias]                      *)
(*   an absent optional string (alias) is NoAlias; an absent optional      *)
(*   array is <<>> (the code only ever tests `x?.length`); an absent       *)
(*   optional object or number (aggregate, limit) is <<>>, a present one   *)
(*   is <<v>>.                                                             *)
(***************************************************************************)
EXTENDS Integers, Sequences, FiniteSets, TLC

VARIABLES
    params,      \* the SqlQuery argument of this invocation
    pc,          \* position inside buildSqlQuery
    thrown,      \* message of the exception thrown synchronously, or NoError
    frags,       \* the clause strings of lines 19-25
    query,       \* the assembled statement (line 29-42)
    promise,     \* the returned promise: [state, value]
    calls        \* the resolve/reject calls made by the executor, in order

vars == <<params, pc, thrown, frags, query, promise, calls>>

----------------------------------------------------------------------------
(* Strings                                                                 *)

CharAt(s, i) == SubSeq(s, i, i)

\* JavaScript's \s and String.prototype.trim, restricted to ASCII whitespace.
IsWhitespace(c) == c \in {" ", "\t", "\n", "\r"}

StartsWith(s, p) == Len(p) <= Len(s) /\ SubSeq(s, 1, Len(p)) = p

EndsWith(s, p) == Len(p) <= Len(s) /\ SubSeq(s, Len(s) - Len(p) + 1, Len(s)) = p

Contains(s, t) == \E i \in 1..(Len(s) - Len(t) + 1) : SubSeq(s, i, i + Len(t) - 1) = t

\* String.prototype.trim
Trim(s) ==
    IF \A i \in 1..Len(s) : IsWhitespace(CharAt(s, i)) THEN ""
    ELSE LET lo == CHOOSE i \in 1..Len(s) :
                      /\ ~IsWhitespace(CharAt(s, i))
                      /\ \A j \in 1..(i - 1) : IsWhitespace(CharAt(s, j))
             hi == CHOOSE i \in 1..Len(s) :
                      /\ ~IsWhitespace(CharAt(s, i))
                      /\ \A j \in (i + 1)..Len(s) : IsWhitespace(CharAt(s, j))
         IN  SubSeq(s, lo, hi)

\* The characters lo..hi of s after s.replace(/\s+/g, ' '): a whitespace character
\* becomes one space when it starts a run and nothing when it continues one.
\* (Halving the range keeps the evaluation shallow.)
RECURSIVE CollapseRange(_, _, _)
CollapseRange(s, lo, hi) ==
    IF lo > hi THEN ""
    ELSE IF lo = hi
         THEN IF ~IsWhitespace(CharAt(s, lo)) THEN CharAt(s, lo)
              ELSE IF lo > 1 /\ IsWhitespace(CharAt(s, lo - 1)) THEN ""
              ELSE " "
    ELSE LET mid == (lo + hi) \div 2
         IN  CollapseRange(s, lo, mid) \o CollapseRange(s, mid + 1, hi)

\* s.replace(/\s+/g, ' ')
CollapseWhitespace(s) == CollapseRange(s, 1, Len(s))

LowerLetters == "abcdefghijklmnopqrstuvwxyz"
UpperLetters == "ABCDEFGHIJKLMNOPQRSTUVWXYZ"

UpperOf ==
    [c \in {CharAt(LowerLetters, i) : i \in 1..Len(LowerLetters)} |->
        CharAt(UpperLetters, CHOOSE i \in 1..Len(LowerLetters) : CharAt(LowerLetters, i) = c)]

LowerOf ==
    [c \in {CharAt(UpperLetters, i) : i \in 1..Len(UpperLetters)} |->
        CharAt(LowerLetters, CHOOSE i \in 1..Len(UpperLetters) : CharAt(UpperLetters, i) = c)]

RECURSIVE UpperRange(_, _, _)
UpperRange(s, lo, hi) ==
    IF lo > hi THEN ""
    ELSE IF lo = hi
         THEN IF CharAt(s, lo) \in DOMAIN UpperOf THEN UpperOf[CharAt(s, lo)] ELSE CharAt(s, lo)
    ELSE LET mid == (lo + hi) \div 2
         IN  UpperRange(s, lo, mid) \o UpperRange(s, mid + 1, hi)

\* String.prototype.toUpperCase (ASCII)
ToUpperCase(s) == UpperRange(s, 1, Len(s))

RECURSIVE LowerRange(_, _, _)
LowerRange(s, lo, hi) ==
    IF lo > hi THEN ""
    ELSE IF lo = hi
         THEN IF CharAt(s, lo) \in DOMAIN LowerOf THEN LowerOf[CharAt(s, lo)] ELSE CharAt(s, lo)
    ELSE LET mid == (lo + hi) \div 2
         IN  LowerRange(s, lo, mid) \o LowerRange(s, mid + 1, hi)

\* String.prototype.toLowerCase (ASCII); also the case folding of a /.../i match
ToLowerCase(s) == LowerRange(s, 1, Len(s))

RECURSIVE JoinFrom(_, _, _)
JoinFrom(seq, sep, i) ==
    IF i > Len(seq) THEN ""
    ELSE IF i = Len(seq) THEN seq[i]
    ELSE seq[i] \o sep \o JoinFrom(seq, sep, i + 1)

\* Array.prototype.join
Join(seq, sep) == JoinFrom(seq, sep, 1)

----------------------------------------------------------------------------
(* Data model (src/src/types.ts)                                           *)

NoAlias == ""
NoError == "<none>"

StrTable(n)    == [form |-> "string", name |-> n, alias |-> NoAlias]
ObjTable(n, a) == [form |-> "object", name |-> n, alias |-> a]

StrCol(s)       == [form |-> "string", tableAlias |-> "", name |-> s, alias |-> NoAlias]
ObjCol(t, n, a) == [form |-> "object", tableAlias |-> t, name |-> n, alias |-> a]

StrVal(s)  == [type |-> "string", str |-> s, num |-> 0]
NumVal(n)  == [type |-> "number", str |-> "", num |-> n]
BoolVal(b) == [type |-> "boolean", str |-> IF b THEN "true" ELSE "false", num |-> 0]

Cmp(c, o, v) == [col |-> c, op |-> o, vals |-> v]

clientType == {"mysql", "postgres", "sqlite", "mssql"}

\* `limit ? ... : ...` : an absent limit and the number 0 are both falsy.
LimitTruthy(p) == p.limit # <<>> /\ p.limit[1] # 0

----------------------------------------------------------------------------
(* validations(params): lines 66-142.  Each check is a predicate; the      *)
(* operator validations applies them in the order of the code and yields   *)
(* the message of the Error thrown, or NoError.                            *)

\* line 69
NoTables(p) == Len(p.tables) = 0

\* line 73
CouplingBroken(p) ==
    \/ (p.aggregate # <<>> /\ Len(p.groupBy) = 0)
    \/ (p.aggregate = <<>> /\ Len(p.groupBy) > 0)

\* line 77
HavingWithoutGroup(p) ==
    Len(p.having) > 0 /\ (Len(p.groupBy) = 0 \/ p.aggregate = <<>>)

\* lines 81-85: object-form columns whose alias is truthy; a Set of them is smaller
DuplicateAliases(p) ==
    /\ Len(p.columns) > 0
    /\ \E i, j \in 1..Len(p.columns) :
          /\ i < j
          /\ p.columns[i].form = "object" /\ p.columns[j].form = "object"
          /\ p.columns[i].alias # NoAlias
          /\ p.columns[i].alias = p.columns[j].alias

\* lines 89-91: only object-form tables are searched
tableExists(p, column) ==
    \E k \in 1..Len(p.tables) :
        /\ p.tables[k].form = "object"
        /\ \/ column.tableAlias = p.tables[k].name
           \/ (p.tables[k].alias # NoAlias /\ column.tableAlias = p.tables[k].alias)

\* lines 87-95: positions of the columns the loop would throw on
UnresolvedColumns(p) ==
    {i \in 1..Len(p.columns) : p.columns[i].form = "object" /\ ~tableExists(p, p.columns[i])}

InvalidTableAlias(p) == Len(p.columns) > 0 /\ UnresolvedColumns(p) # {}

FirstUnresolved(p) ==
    p.columns[CHOOSE i \in UnresolvedColumns(p) : \A j \in UnresolvedColumns(p) : i <= j]

\* lines 98-100
SqliteHaving(p) == p.client = "sqlite" /\ Len(p.having) > 0

\* lines 98, 102
SqliteJoin(p) ==
    /\ p.client = "sqlite"
    /\ \E k \in 1..Len(p.joins) : ToLowerCase(p.joins[k].type) \in {"right", "full"}

\* lines 106-108
MssqlDistinctOrder(p) == p.client = "mssql" /\ p.distinct /\ Len(p.orderBy) > 0

\* lines 111-113
LimitWithoutOrder(p) ==
    p.client \in {"postgres", "mssql"} /\ LimitTruthy(p) /\ Len(p.orderBy) = 0

\* line 122: name.toUpperCase().match(/^(COUNT|SUM|AVG|MIN|MAX)\(/)
IsAggregateCall(name) ==
    \E f \in {"COUNT", "SUM", "AVG", "MIN", "MAX"} : StartsWith(ToUpperCase(name), f \o "(")

\* lines 116-127
UngroupedColumns(p) ==
    /\ p.client \in {"mysql", "mssql"}
    /\ Len(p.groupBy) > 0 /\ Len(p.columns) > 0
    /\ LET groupByColumns ==
               {p.groupBy[k].name : k \in {k \in 1..Len(p.groupBy) : p.groupBy[k].form = "object"}}
       IN  \E i \in 1..Len(p.columns) :
              /\ p.columns[i].form = "object"
              /\ p.columns[i].name \notin groupByColumns
              /\ ~IsAggregateCall(p.columns[i].name)

\* lines 130-136
JoinsWithoutOn(p) == {k \in 1..Len(p.joins) : Len(p.joins[k].on) = 0}

JoinWithoutOn(p) == JoinsWithoutOn(p) # {}

FirstJoinWithoutOn(p) ==
    p.joins[CHOOSE k \in JoinsWithoutOn(p) : \A j \in JoinsWithoutOn(p) : k <= j]

\* lines 138-140
MultipleTablesNoWhere(p) == Len(p.tables) > 1 /\ Len(p.wheres) = 0

ErrNoTables       == "At least one table is required"
ErrCoupling       == "Group by is required when using aggregate"
ErrHaving         == "Group by and aggregate are required when using having"
ErrAliases        == "Column aliases must be unique"
ErrTableAlias(c)  == "Column '" \o c.name \o "' references invalid table alias '" \o c.tableAlias \o "'"
ErrSqliteHaving   == "Having is not supported in sqlite"
ErrSqliteJoin     == "RIGHT and FULL JOINs are not supported in SQLite"
ErrMssqlDistinct  == "Order by is not supported when using distinct in mssql"
ErrLimit          == "Order by is required when using limit"
ErrUngrouped      == "Columns in SELECT must either be in GROUP BY or be aggregated"
ErrJoin(j)        == "Join condition is required for table: " \o j.table
ErrMultipleTables == "Where is required when using multiple tables"

\* validations with the alias checks of lines 81-96 moved in front of line 77
validations_ColumnsBeforeHaving(p) ==
    IF NoTables(p) THEN ErrNoTables
    ELSE IF CouplingBroken(p) THEN ErrCoupling
    ELSE IF DuplicateAliases(p) THEN ErrAliases
    ELSE IF InvalidTableAlias(p) THEN ErrTableAlias(FirstUnresolved(p))
    ELSE IF HavingWithoutGroup(p) THEN ErrHaving
    ELSE IF SqliteHaving(p) THEN ErrSqliteHaving
    ELSE IF SqliteJoin(p) THEN ErrSqliteJoin
    ELSE IF MssqlDistinctOrder(p) THEN ErrMssqlDistinct
    ELSE IF LimitWithoutOrder(p) THEN ErrLimit
    ELSE IF UngroupedColumns(p) THEN ErrUngrouped
    ELSE IF JoinWithoutOn(p) THEN ErrJoin(FirstJoinWithoutOn(p))
    ELSE IF MultipleTablesNoWhere(p) THEN ErrMultipleTables
    ELSE NoError

validations(p) ==
    IF NoTables(p) THEN ErrNoTables
    ELSE IF CouplingBroken(p) THEN ErrCoupling
    ELSE IF HavingWithoutGroup(p) THEN ErrHaving
    ELSE IF DuplicateAliases(p) THEN ErrAliases
    ELSE IF InvalidTableAlias(p) THEN ErrTableAlias(FirstUnresolved(p))
    ELSE IF SqliteHaving(p) THEN ErrSqliteHaving
    ELSE IF SqliteJoin(p) THEN ErrSqliteJoin
    ELSE IF MssqlDistinctOrder(p) THEN ErrMssqlDistinct
    ELSE IF LimitWithoutOrder(p) THEN ErrLimit
    ELSE IF UngroupedColumns(p) THEN ErrUngrouped
    ELSE IF JoinWithoutOn(p) THEN ErrJoin(FirstJoinWithoutOn(p))
    ELSE IF MultipleTablesNoWhere(p) THEN ErrMultipleTables
    ELSE NoError

----------------------------------------------------------------------------
(* Clause rendering: lines 19-25 and the helpers of lines 150-182.         *)

\* String(v) / `${v}` of a scalar
JsString(v) == IF v.type = "number" THEN ToString(v.num) ELSE v.str

\* typeof value === 'string' ? `'${value}'` : value      (lines 153-161)
QuoteIfString(v) == IF v.type = "string" THEN "'" \o v.str \o "'" ELSE JsString(v)

\* `${values[0]}`: a missing element is undefined                      (lines 163, 165)
ElementString(values, i) ==
    IF i <= Len(values) THEN JsString(values[i]) ELSE "undefined"

\* an element destructured out of `values`, quoted when a string     (lines 157-161)
QuotedElement(values, i) ==
    IF i <= Len(values) THEN QuoteIfString(values[i]) ELSE "undefined"

\* `${values}` of an array: Array.prototype.toString, i.e. join(',')       (line 171)
ArrayToString(values) == Join([i \in 1..Len(values) |-> JsString(values[i])], ",")

\* lines 150-173.  `values` is an array (any[]), so `typeof values === 'string'`
\* of the default case is false and the array itself is interpolated.
valuesString(operator, values) ==
    CASE operator \in {"IN", "NOT IN"} ->
            operator \o " (" \o Join([i \in 1..Len(values) |-> QuoteIfString(values[i])], ", ") \o ")"
      [] operator \in {"BETWEEN", "NOT BETWEEN"} ->
            operator \o " (" \o QuotedElement(values, 1) \o " AND "
                     \o QuotedElement(values, 2) \o ")"
      [] operator \in {"LIKE", "NOT LIKE"} ->
            operator \o " '%" \o ElementString(values, 1) \o "%'"
      [] operator \in {"IS NULL", "IS NOT NULL"} -> operator
      [] OTHER -> operator \o " " \o ArrayToString(values)

\* lines 180-182
columnString(col) ==
    IF col.form = "string" THEN col.name ELSE col.tableAlias \o "." \o col.name

\* the callback of lines 21-23: `${columnString(col)} ${valuesString(op, vals)}`
comparisonString(c) == columnString(c.col) \o " " \o valuesString(c.op, c.vals)

\* the callback of line 19
tableString(tab) ==
    IF tab.form = "string" THEN tab.name
    ELSE tab.name \o (IF tab.alias # NoAlias THEN " AS " \o tab.alias ELSE "")

\* the callback of line 20
projectedColumnString(col) ==
    IF col.form = "string" THEN col.name
    ELSE col.name \o (IF col.alias # NoAlias THEN " AS " \o col.alias ELSE "")

\* the callback of line 21
joinString(j) ==
    ToUpperCase(j.type) \o " JOIN " \o j.table \o " ON "
        \o Join([i \in 1..Len(j.on) |-> comparisonString(j.on[i])], " AND ")

\* lines 19-25
ClauseStrings(p) ==
    [tablesString  |-> Join([i \in 1..Len(p.tables) |-> tableString(p.tables[i])], ", "),
     columnsString |-> Join([i \in 1..Len(p.columns) |-> projectedColumnString(p.columns[i])], ", "),
     joinsString   |-> Join([i \in 1..Len(p.joins) |-> joinString(p.joins[i])], " "),
     wheresString  |-> Join([i \in 1..Len(p.wheres) |-> comparisonString(p.wheres[i])], " AND "),
     havingString  |-> Join([i \in 1..Len(p.having) |-> comparisonString(p.having[i])], " AND "),
     groupByString |-> Join([i \in 1..Len(p.groupBy) |-> columnString(p.groupBy[i])], ", "),
     orderByString |-> Join(p.orderBy, ", ")]

NoClauses ==
    [tablesString |-> "", columnsString |-> "", joinsString |-> "", wheresString |-> "",
     havingString |-> "", groupByString |-> "", orderByString |-> ""]

----------------------------------------------------------------------------
(* Statement assembly: lines 29-42.                                        *)

\* line 31
TopPart(p) ==
    IF p.client = "mssql" /\ LimitTruthy(p) THEN "TOP " \o ToString(p.limit[1]) ELSE ""

\* line 32 with the DISTINCT keyword forgotten
DistinctPart_Dropped(p) == ""

\* line 32
DistinctPart(p) == IF p.distinct THEN "DISTINCT " ELSE ""

\* line 33
AggregatePart(p) ==
    IF p.aggregate # <<>>
    THEN p.aggregate[1].type \o "(" \o columnString(p.aggregate[1].col) \o ")"
    ELSE ""

\* line 34
ProjectionPart(p, f) ==
    IF p.aggregate = <<>> /\ Len(p.columns) > 0 THEN f.columnsString ELSE "*"

\* line 41
LimitPart(p) ==
    IF p.client # "mssql" /\ LimitTruthy(p) THEN "LIMIT " \o ToString(p.limit[1]) ELSE ""

\* lines 30-41: the template before normalisation
RawQuery(p, f) ==
    "SELECT"
    \o " " \o TopPart(p)
    \o " " \o DistinctPart(p)
    \o " " \o AggregatePart(p)
    \o " " \o ProjectionPart(p, f)
    \o " FROM " \o f.tablesString
    \o " " \o (IF f.joinsString # "" THEN " " \o f.joinsString ELSE "")
    \o " " \o (IF f.wheresString # "" THEN "WHERE " \o f.wheresString ELSE "")
    \o " " \o (IF f.groupByString # "" THEN "GROUP BY " \o f.groupByString ELSE "")
    \o " " \o (IF f.havingString # "" THEN "HAVING " \o f.havingString ELSE "")
    \o " " \o (IF f.orderByString # "" THEN "ORDER BY " \o f.orderByString ELSE "")
    \o " " \o LimitPart(p)

\* line 42 without the .replace(/\s+/g, ' ')
Normalize_TrimOnly(s) == Trim(s)

\* line 42: .trim().replace(/\s+/g, ' ')
Normalize(s) == CollapseWhitespace(Trim(s))

\* lines 29-42
AssembleQuery(p, f) == Normalize(RawQuery(p, f))

----------------------------------------------------------------------------
(* Safety guard: lines 45-51.                                              *)

\* the alternatives of the regular expression of line 45, in its order
sqlInjectionTokens ==
    <<";", "--", "/*", "*/", "xp_", "exec", "execute", "insert", "update",
      "delete", "drop", "alter", "create", "truncate">>

\* sqlInjectionPattern.test(query): a case-insensitive search
sqlInjectionPatternTest(q) ==
    LET folded == ToLowerCase(q)
    IN  \E k \in 1..Len(sqlInjectionTokens) : Contains(folded, sqlInjectionTokens[k])

\* line 49: !query.trim().toUpperCase().startsWith('SELECT')
NotSelect(q) == ~StartsWith(ToUpperCase(Trim(q)), "SELECT")

ErrInjection  == "Possible SQL injection attempt detected. Only SELECT queries are allowed."
ErrOnlySelect == "Only SELECT queries are allowed."

----------------------------------------------------------------------------
(* The promise of line 27.  resolve and reject are the resolving functions *)
(* of an ECMAScript promise: only the first call settles it.               *)

NoPromise == [state |-> "none", value |-> ""]
Pending   == [state |-> "pending", value |-> ""]

\* a deferred result on which the last call wins
Settle_LastCallWins(pr, state, value) == [state |-> state, value |-> value]

Settle(pr, state, value) ==
    IF pr.state = "pending" THEN [state |-> state, value |-> value] ELSE pr

----------------------------------------------------------------------------
(* Inputs                                                                  *)

MaxLimit == 1

Users     == ObjTable("users", NoAlias)
UsersAsU  == ObjTable("users", "u")
OrdersAsO == ObjTable("orders", "o")

Tables ==
    {<<>>,
     <<StrTable("users")>>,
     <<Users>>,
     <<OrdersAsO>>,
     <<UsersAsU, OrdersAsO>>}

Columns ==
    {<<>>,
     <<ObjCol("users", "id", NoAlias), ObjCol("users", "name", NoAlias)>>,
     <<ObjCol("users", "name", "n"), ObjCol("o", "total", "n")>>,
     <<StrCol("COUNT(*)"), ObjCol("o", "sum(total)", "s")>>,
     <<ObjCol("u", "id", "uid")>>}

Aggregates == {<<>>, <<[type |-> "SUM", col |-> ObjCol("orders", "total", NoAlias)]>>}

GroupBys == {<<>>, <<ObjCol("users", "id", NoAlias)>>}

Havings == {<<>>, <<Cmp(ObjCol("orders", "total", NoAlias), ">", <<NumVal(1000)>>)>>}

Wheres ==
    {<<>>,
     <<Cmp(ObjCol("users", "status", NoAlias), "=", <<StrVal("active")>>)>>,
     <<Cmp(ObjCol("users", "status", NoAlias), "!=", <<StrVal("deleted")>>),
       Cmp(StrCol("users.age"), "BETWEEN", <<NumVal(18), NumVal(65)>>),
       Cmp(ObjCol("u", "role", NoAlias), "IN", <<StrVal("a"), NumVal(2)>>),
       Cmp(StrCol("u.name"), "LIKE", <<StrVal("x")>>),
       Cmp(StrCol("u.mail"), "IS NULL", <<>>),
       Cmp(StrCol("u.ok"), "=", <<BoolVal(TRUE)>>)>>}

LeftJoinOrders ==
    [table |-> "orders", type |-> "left",
     on |-> <<Cmp(ObjCol("users", "id", NoAlias), "=", <<StrVal("o.user_id")>>)>>]

Joins ==
    {<<>>,
     <<LeftJoinOrders>>,
     <<LeftJoinOrders, [table |-> "items", type |-> "right", on |-> <<>>]>>}

OrderBys == {<<>>, <<"users.name  ASC", "users.id\tDESC ">>}

Limits == {<<>>} \cup {<<n>> : n \in 0..MaxLimit}

SqlQuery ==
    [distinct  : BOOLEAN,
     aggregate : Aggregates,
     columns   : Columns,
     tables    : Tables,
     joins     : Joins,
     wheres    : Wheres,
     groupBy   : GroupBys,
     having    : Havings,
     orderBy   : OrderBys,
     limit     : Limits,
     client    : clientType]

----------------------------------------------------------------------------
(* buildSqlQuery(params): lines 14-59, one invocation.                     *)
(* The executor of line 27 runs synchronously inside `new Promise`; its    *)
(* statements are separate steps so that the calls of reject and resolve   *)
(* are seen in their order.  The catch of lines 54-57 has no step: for a   *)
(* well-typed SqlQuery nothing inside the try throws.                      *)

Init ==
    /\ params \in SqlQuery
    /\ pc = "call"
    /\ thrown = NoError
    /\ frags = NoClauses
    /\ query = ""
    /\ promise = NoPromise
    /\ calls = <<>>

\* line 15: validations(params) throws out of buildSqlQuery, or returns
Validate ==
    /\ pc = "call"
    /\ LET err == validations(params)
       IN  /\ thrown' = err
           /\ pc' = IF err = NoError THEN "render" ELSE "thrown"
    /\ UNCHANGED <<params, frags, query, promise, calls>>

\* lines 17-25
Render ==
    /\ pc = "render"
    /\ frags' = ClauseStrings(params)
    /\ pc' = "assemble"
    /\ UNCHANGED <<params, thrown, query, promise, calls>>

\* line 27 and lines 29-42: the executor starts and assembles the statement
Assemble ==
    /\ pc = "assemble"
    /\ promise' = Pending
    /\ query' = AssembleQuery(params, frags)
    /\ pc' = "guardInjection"
    /\ UNCHANGED <<params, thrown, frags, calls>>

\* lines 45-48: reject(...) does not leave the executor
GuardInjection ==
    /\ pc = "guardInjection"
    /\ IF sqlInjectionPatternTest(query)
       THEN /\ promise' = Settle(promise, "rejected", ErrInjection)
            /\ calls' = Append(calls, [fn |-> "reject", at |-> "injection"])
       ELSE UNCHANGED <<promise, calls>>
    /\ pc' = "guardSelect"
    /\ UNCHANGED <<params, thrown, frags, query>>

\* lines 49-51
GuardSelect ==
    /\ pc = "guardSelect"
    /\ IF NotSelect(query)
       THEN /\ promise' = Settle(promise, "rejected", ErrOnlySelect)
            /\ calls' = Append(calls, [fn |-> "reject", at |-> "select"])
       ELSE UNCHANGED <<promise, calls>>
    /\ pc' = "resolve"
    /\ UNCHANGED <<params, thrown, frags, query>>

\* line 53, after which the executor ends and the promise is returned
Resolve ==
    /\ pc = "resolve"
    /\ promise' = Settle(promise, "fulfilled", query)
    /\ calls' = Append(calls, [fn |-> "resolve", at |-> "end"])
    /\ pc' = "returned"
    /\ UNCHANGED <<params, thrown, frags, query>>

Next == Validate \/ Render \/ Assemble \/ GuardInjection \/ GuardSelect \/ Resolve

Spec == Init /\ [][Next]_vars

----------------------------------------------------------------------------
(* Properties                                                              *)

\* validations returned without throwing
Validated == pc \notin {"call", "thrown"}

\* lines 19-25 have run
Rendered == pc \in {"assemble", "guardInjection", "guardSelect", "resolve", "returned"}

\* the statement of lines 29-42 exists
Assembled == pc \in {"guardInjection", "guardSelect", "resolve", "returned"}

\* What may stand between the start of a statement and its projection:
\* SELECT, an optional TOP n, an optional DISTINCT.
SelectHeads ==
    {"SELECT " \o top \o distinct :
        top \in {""} \cup {"TOP " \o ToString(n) \o " " : n \in 0..MaxLimit},
        distinct \in {"", "DISTINCT "}}

\* renderColumn / renderColumnWithAlias as the specification words them
SpecRenderColumn(col) ==
    IF col.form = "string" THEN col.name ELSE col.tableAlias \o "." \o col.name

SpecRenderColumnWithAlias(col) ==
    SpecRenderColumn(col)
        \o (IF col.form = "object" /\ col.alias # NoAlias THEN " AS " \o col.alias ELSE "")

\* renderValue as the specification words it
SpecRenderValue(v) ==
    IF v.type = "string" THEN "'" \o v.str \o "'"
    ELSE IF v.type = "number" THEN ToString(v.num)
    ELSE v.str

(* C1: with no aggregate and a non-empty columns list, the projection list *)
(* of the assembled statement is the columns in order, comma-separated,    *)
(* each object-form column rendered as tableAlias.name [AS alias].         *)
C1_ProjectionIsQualifiedColumns ==
    (Assembled /\ params.aggregate = <<>> /\ Len(params.columns) > 0) =>
        \E head \in SelectHeads :
            StartsWith(query,
                head \o Join([i \in 1..Len(params.columns) |-> SpecRenderColumnWithAlias(params.columns[i])], ", ") \o " FROM ")

ComparisonOperators == {"=", "<", ">", "<=", ">=", "!="}

SpecRenderComparison(c) ==
    SpecRenderColumn(c.col) \o " " \o c.op \o " " \o SpecRenderValue(c.vals[1])

\* every one-valued comparison of `comparisons` appears in `clause` as `column OP value`
SimpleComparisonsRendered(comparisons, clause) ==
    \A k \in 1..Len(comparisons) :
        (comparisons[k].op \in ComparisonOperators /\ Len(comparisons[k].vals) = 1) =>
            Contains(clause, SpecRenderComparison(comparisons[k]))

(* C2: a comparison of wheres, having or a join's on-list with one of the  *)
(* operators = < > <= >= != and one value is rendered `column OP value`,   *)
(* a string value in single quotes, a number or boolean unquoted.          *)
C2_ComparisonQuotesStrings ==
    Rendered =>
        /\ SimpleComparisonsRendered(params.wheres, frags.wheresString)
        /\ SimpleComparisonsRendered(params.having, frags.havingString)
        /\ \A j \in 1..Len(params.joins) :
              SimpleComparisonsRendered(params.joins[j].on, frags.joinsString)

(* C3: with an aggregate, the projection of the assembled statement is     *)
(* exactly TYPE(column): neither `*` nor the column list stands beside it. *)
C3_AggregateIsWholeProjection ==
    (Assembled /\ params.aggregate # <<>>) =>
        \E head \in SelectHeads :
            StartsWith(query,
                head \o params.aggregate[1].type
                     \o "(" \o SpecRenderColumn(params.aggregate[1].col) \o ")" \o " FROM ")

(* C4: a specification that violates a validation rule makes buildSqlQuery *)
(* return a promise rejected with the validation error; the call does not  *)
(* throw synchronously.                                                    *)
C4_InvalidSpecRejectsPromise ==
    (pc # "call" /\ validations(params) # NoError) =>
        /\ thrown = NoError
        /\ promise.state = "rejected"

(* C5: with limit set to n >= 0, the statement of mysql, postgres and      *)
(* sqlite ends with LIMIT n and has no TOP; the statement of mssql has     *)
(* TOP n right after SELECT and no trailing LIMIT.                         *)
C5_LimitRenderedForEveryN ==
    (Assembled /\ params.limit # <<>>) =>
        LET n == ToString(params.limit[1])
        IN  IF params.client = "mssql"
            THEN /\ StartsWith(query, "SELECT TOP " \o n \o " ")
                 /\ ~EndsWith(query, "LIMIT " \o n)
            ELSE /\ EndsWith(query, " LIMIT " \o n)
                 /\ ~Contains(query, "TOP")

\* none of columns, aggregate, joins, wheres, groupBy, having, orderBy, limit
NoOptionalClauses(p) ==
    /\ Len(p.columns) = 0 /\ p.aggregate = <<>> /\ Len(p.joins) = 0
    /\ Len(p.wheres) = 0 /\ Len(p.groupBy) = 0 /\ Len(p.having) = 0
    /\ Len(p.orderBy) = 0 /\ p.limit = <<>>

\* renderTable as the specification words it: name, or `name AS alias`
SpecRenderTable(tab) ==
    tab.name \o (IF tab.form = "object" /\ tab.alias # NoAlias THEN " AS " \o tab.alias ELSE "")

(* C6 as claimed: a valid specification with none of the optional clauses  *)
(* yields exactly `SELECT * FROM {table}`, whatever its distinct flag.      *)
C6_BareSelectWhateverDistinct ==
    (pc = "returned" /\ NoOptionalClauses(params)) =>
        promise = [state |-> "fulfilled",
                   value |-> "SELECT * FROM " \o SpecRenderTable(params.tables[1])]

\* the statement a clause-free specification is expected to give
BareSelect(p) ==
    CollapseWhitespace(Trim(
        "SELECT " \o (IF p.distinct THEN "DISTINCT " ELSE "") \o "* FROM "
            \o SpecRenderTable(p.tables[1])))

(* C6 amended: a valid specification with none of the optional clauses has *)
(* exactly one table and its statement is `SELECT * FROM {table}` when     *)
(* distinct is false and `SELECT DISTINCT * FROM {table}` when it is true  *)
(* (whitespace-normalised); that statement is the delivered result unless  *)
(* it contains a denylist token, and then the promise is rejected.         *)
C6_BareSelectFollowsDistinct ==
    (pc = "returned" /\ NoOptionalClauses(params)) =>
        /\ Len(params.tables) = 1
        /\ query = BareSelect(params)
        /\ IF sqlInjectionPatternTest(BareSelect(params))
           THEN promise.state = "rejected"
           ELSE promise = [state |-> "fulfilled", value |-> BareSelect(params)]

C6_Witness ==
    /\ pc = "returned" /\ NoOptionalClauses(params)
    /\ params.distinct /\ params.client = "mssql"
    /\ params.tables[1].alias # NoAlias
    /\ promise = [state |-> "fulfilled", value |-> "SELECT DISTINCT * FROM orders AS o"]

\* the denylist of the safety guard, as the specification lists it
DenylistTokens ==
    {";", "--", "/*", "*/", "xp_", "exec", "execute", "insert", "update",
     "delete", "drop", "alter", "create", "truncate"}

ContainsDenylistToken(text) ==
    LET folded == ToLowerCase(text)
    IN  \E token \in DenylistTokens : Contains(folded, token)

(* C7: once the guard has looked at an assembled statement that contains   *)
(* a denylist token (in any letter case), the promise is rejected with the *)
(* injection error and stays so: the resolve call that follows does not    *)
(* change the outcome and the statement is never delivered.                *)
C7_DenylistedStatementNeverDelivered ==
    (pc \in {"guardSelect", "resolve", "returned"} /\ ContainsDenylistToken(query)) =>
        promise = [state |-> "rejected", value |-> ErrInjection]

C7_Witness ==
    /\ pc = "returned"
    /\ ContainsDenylistToken(query)
    /\ calls = <<[fn |-> "reject", at |-> "injection"], [fn |-> "resolve", at |-> "end"]>>
    /\ promise.state = "rejected"

\* the order of the rules as the specification numbers them
RuleOrder ==
    <<"tables", "coupling", "having", "aliasUnique", "aliasResolve",
      "sqliteHaving", "sqliteJoin", "mssqlDistinctOrder", "limitOrder", "ungrouped",
      "joinOn", "multipleTables">>

RuleViolated(rule, p) ==
    CASE rule = "tables"             -> NoTables(p)
      [] rule = "coupling"           -> CouplingBroken(p)
      [] rule = "having"             -> HavingWithoutGroup(p)
      [] rule = "aliasUnique"        -> DuplicateAliases(p)
      [] rule = "aliasResolve"       -> InvalidTableAlias(p)
      [] rule = "sqliteHaving"       -> SqliteHaving(p)
      [] rule = "sqliteJoin"         -> SqliteJoin(p)
      [] rule = "mssqlDistinctOrder" -> MssqlDistinctOrder(p)
      [] rule = "limitOrder"         -> LimitWithoutOrder(p)
      [] rule = "ungrouped"          -> UngroupedColumns(p)
      [] rule = "joinOn"             -> JoinWithoutOn(p)
      [] rule = "multipleTables"     -> MultipleTablesNoWhere(p)

RuleError(rule, p) ==
    CASE rule = "tables"             -> ErrNoTables
      [] rule = "coupling"           -> ErrCoupling
      [] rule = "having"             -> ErrHaving
      [] rule = "aliasUnique"        -> ErrAliases
      [] rule = "aliasResolve"       -> ErrTableAlias(FirstUnresolved(p))
      [] rule = "sqliteHaving"       -> ErrSqliteHaving
      [] rule = "sqliteJoin"         -> ErrSqliteJoin
      [] rule = "mssqlDistinctOrder" -> ErrMssqlDistinct
      [] rule = "limitOrder"         -> ErrLimit
      [] rule = "ungrouped"          -> ErrUngrouped
      [] rule = "joinOn"             -> ErrJoin(FirstJoinWithoutOn(p))
      [] rule = "multipleTables"     -> ErrMultipleTables

\* positions in RuleOrder of the rules p violates
ViolatedRules(p) == {i \in 1..Len(RuleOrder) : RuleViolated(RuleOrder[i], p)}

(* C8: validation is fail-fast in the numbered order: the error reported   *)
(* is that of the earliest violated rule, and a specification is accepted  *)
(* only when it violates none.                                             *)
C8_EarliestViolatedRuleReported ==
    (pc # "call") =>
        LET violated == ViolatedRules(params)
        IN  IF violated = {}
            THEN thrown = NoError /\ pc # "thrown"
            ELSE /\ pc = "thrown"
                 /\ \E i \in violated :
                       /\ \A j \in violated : i <= j
                       /\ thrown = RuleError(RuleOrder[i], params)

C8_Witness ==
    /\ pc = "thrown"
    /\ thrown = ErrHaving
    /\ Cardinality(ViolatedRules(params)) >= 4
    /\ RuleViolated("aliasUnique", params)
    /\ RuleViolated("sqliteHaving", params)

\* every ColumnRef of a specification, wherever it stands
AllColumnRefs(p) ==
    {p.columns[i] : i \in 1..Len(p.columns)}
    \cup {p.aggregate[i].col : i \in 1..Len(p.aggregate)}
    \cup {p.wheres[i].col : i \in 1..Len(p.wheres)}
    \cup {p.groupBy[i] : i \in 1..Len(p.groupBy)}
    \cup {p.having[i].col : i \in 1..Len(p.having)}
    \cup UNION {{p.joins[j].on[i].col : i \in 1..Len(p.joins[j].on)} : j \in 1..Len(p.joins)}

\* the tableAlias is the name or the alias of a declared table
ResolvesToDeclaredTable(p, col) ==
    \E k \in 1..Len(p.tables) :
        \/ col.tableAlias = p.tables[k].name
        \/ (p.tables[k].alias # NoAlias /\ col.tableAlias = p.tables[k].alias)

(* C9: in a specification that passes validation, every object-form        *)
(* ColumnRef (columns, aggregate.col, wheres, groupBy, having, join        *)
(* on-conditions) has a tableAlias naming a declared table.                *)
C9_EveryColumnRefResolves ==
    Validated =>
        \A col \in AllColumnRefs(params) :
            col.form = "object" => ResolvesToDeclaredTable(params, col)

\* no whitespace at either end and no whitespace next to whitespace
SingleSpaced(text) ==
    /\ Len(text) > 0
    /\ ~IsWhitespace(CharAt(text, 1))
    /\ ~IsWhitespace(CharAt(text, Len(text)))
    /\ \A i \in 1..(Len(text) - 1) :
          ~(IsWhitespace(CharAt(text, i)) /\ IsWhitespace(CharAt(text, i + 1)))

(* C10: a delivered statement starts with `SELECT `, has no whitespace at  *)
(* either end and no two consecutive whitespace characters; and the        *)
(* guard's second check (not a SELECT) never rejects.                      *)
C10_DeliveredTextIsNormalisedSelect ==
    /\ promise.state = "fulfilled" =>
          /\ StartsWith(promise.value, "SELECT ")
          /\ SingleSpaced(promise.value)
    /\ \A i \in 1..Len(calls) : calls[i].at # "select"
    /\ promise.value # ErrOnlySelect

C10_Witness ==
    /\ promise.state = "fulfilled"
    /\ Contains(RawQuery(params, frags), "\t")
    /\ Contains(RawQuery(params, frags), "  ")
    /\ Len(params.joins) > 0 /\ Len(params.wheres) > 0 /\ params.aggregate # <<>>
    /\ LimitTruthy(params) /\ params.distinct

\* some object-form column names a table declared as a plain string
ColumnOnStringTable(p) ==
    \E k \in 1..Len(p.tables) : \E i \in 1..Len(p.columns) :
        /\ p.tables[k].form = "string"
        /\ p.columns[i].form = "object"
        /\ p.columns[i].tableAlias = p.tables[k].name

\* no rule other than column table-alias resolution is violated
NoOtherRuleViolated(p) ==
    \A r \in ViolatedRules(p) : RuleOrder[r] = "aliasResolve"

(* C11: a specification whose tables hold a plain-string table t and       *)
(* whose columns hold an object-form column with tableAlias t, every       *)
(* object-form column naming a declared table of either form and no other  *)
(* rule being violated, passes validation: no invalid-table-alias error.   *)
C11_StringTableResolvesColumn ==
    (/\ pc # "call"
     /\ ColumnOnStringTable(params)
     /\ \A i \in 1..Len(params.columns) :
           params.columns[i].form = "object"
               => ResolvesToDeclaredTable(params, params.columns[i])
     /\ NoOtherRuleViolated(params))
    => (pc # "thrown" /\ thrown = NoError)

====
